---- MODULE Spec2Model ----
(***************************************************************************)
(* Model of src/backend/check.py: the cargo-check report generator.        *)
(* One pass over the lines of check.json fills the buffer `out` and sets   *)
(* the flag `has_messages`; afterwards check.md is opened for writing and  *)
(* one document is written to it.                                          *)
(*                                                                         *)
(* Text is a sequence of one-character strings, so that title(), rstrip(), *)
(* str.join and f-string formatting are computed character by character.   *)
(* A line of the input is either text on which json.loads raises, or the   *)
(* JSON value json.loads returns for it.                                   *)
(***************************************************************************)
EXTENDS Integers, Sequences, FiniteSets

VARIABLES
    input,          \* the lines of check.json, in file order
    before,         \* the content of check.md before the run
    pc,             \* "start", "loop", "write", "done", "aborted", "io_failed"
    i,              \* 1 + the number of lines the for loop has taken
    out,            \* the list `out`: a sequence of texts
    has_messages,   \* the flag `has_messages`
    file            \* the content of check.md

vars == <<input, before, pc, i, out, has_messages, file>>

\* ------------------------------------------------------------------ bounds

\* The longest input file, in lines.
MaxLines == 2

\* ------------------------------------------------------- decoded JSON values

\* What json.loads returns: None, bool, int, str, list, dict.
JNull == [t |-> "null"]
JBool(b) == [t |-> "bool", b |-> b]
JNum(n) == [t |-> "num", n |-> n]
JStr(s) == [t |-> "str", s |-> s]
JArr(a) == [t |-> "arr", a |-> a]
JObj(f) == [t |-> "obj", f |-> f]

\* A line on which json.loads raises (s is its text).
NotJson(s) == [t |-> "text", s |-> s]

\* ------------------------------------------------------------ string literals

CompilerMessage ==
    <<"c", "o", "m", "p", "i", "l", "e", "r", "-", "m", "e", "s", "s", "a", "g", "e">>
LevelError ==
    <<"e", "r", "r", "o", "r">>
LevelWarning ==
    <<"w", "a", "r", "n", "i", "n", "g">>
HeadingPrefix ==
    <<"#", "#", "#", " ">>
HeadingSep ==
    <<":", " ">>
FilePrefix ==
    <<"F", "i", "l", "e", ":", " ">>
FileSep ==
    <<":">>
\* The character U+0060 (a string literal of the module cannot hold it).
Backtick == "BACKTICK"
FenceOpen ==
    <<Backtick, Backtick, Backtick, "r", "u", "s", "t">>
FenceClose ==
    <<Backtick, Backtick, Backtick, "\n">>
ReportHeader ==
    <<"#", " ", "C", "a", "r", "g", "o", " ", "C", "h", "e", "c", "k", " ", "R", "e", "p", "o", "r", "t", "\n", "\n">>
SuccessDoc ==
    <<"#", " ", "C", "a", "r", "g", "o", " ", "C", "h", "e", "c", "k", " ", "R", "e", "p", "o", "r", "t", "\n", "\n", "N", "o", " ", "w", "a", "r", "n", "i", "n", "g", "s", " ", "o", "r", " ", "e", "r", "r", "o", "r", "s", ".", " ", "B", "u", "i", "l", "d", " ", "s", "u", "c", "c", "e", "s", "s", ".", "\n">>
NoneText ==
    <<"N", "o", "n", "e">>
TrueText ==
    <<"T", "r", "u", "e">>
FalseText ==
    <<"F", "a", "l", "s", "e">>
Newline ==
    <<"\n">>
EmptyText ==
    <<>>

\* ------------------------------------------------------------- str methods

Lowers ==
    <<"a", "b", "c", "d", "e", "f", "g", "h", "i", "j", "k", "l", "m", "n", "o", "p", "q", "r", "s", "t", "u", "v", "w", "x", "y", "z">>
Uppers ==
    <<"A", "B", "C", "D", "E", "F", "G", "H", "I", "J", "K", "L", "M", "N", "O", "P", "Q", "R", "S", "T", "U", "V", "W", "X", "Y", "Z">>
Digits ==
    <<"0", "1", "2", "3", "4", "5", "6", "7", "8", "9">>

\* The characters str.rstrip() removes when called without an argument.
Whitespace == {" ", "\t", "\n", "\r", "\f"}

IndexIn(c, alphabet) ==
    IF \E k \in DOMAIN alphabet : alphabet[k] = c
    THEN CHOOSE k \in DOMAIN alphabet : alphabet[k] = c
    ELSE 0

IsCased(c) == IndexIn(c, Lowers) > 0 \/ IndexIn(c, Uppers) > 0

ToUpper(c) == IF IndexIn(c, Lowers) > 0 THEN Uppers[IndexIn(c, Lowers)] ELSE c

ToLower(c) == IF IndexIn(c, Uppers) > 0 THEN Lowers[IndexIn(c, Uppers)] ELSE c

\* A mis-cased variant: str.upper() in place of str.title().
Title_Upper(s) == [k \in DOMAIN s |-> ToUpper(s[k])]

\* str.title(): a cased character is upper-cased when the character before it
\* is not cased (or there is none), and lower-cased otherwise.
Title(s) ==
    [k \in DOMAIN s |->
        IF k > 1 /\ IsCased(s[k - 1]) THEN ToLower(s[k]) ELSE ToUpper(s[k])]

\* A variant that leaves the text as it is.
RStrip_Keep(s) == s

\* str.rstrip(): the text without its trailing whitespace characters.
RStrip(s) ==
    LET keep == {k \in DOMAIN s : s[k] \notin Whitespace}
        last == IF keep = {} THEN 0 ELSE CHOOSE k \in keep : \A m \in keep : m <= k
    IN  SubSeq(s, 1, last)

RECURSIVE DecimalText(_)
\* str(n) of a non-negative int.
DecimalText(n) ==
    IF n < 10 THEN <<Digits[n + 1]>>
    ELSE DecimalText(n \div 10) \o <<Digits[(n % 10) + 1]>>

\* What an f-string puts for {v}: str(v).
Format(v) ==
    CASE v.t = "str" -> v.s
      [] v.t = "null" -> NoneText
      [] v.t = "bool" -> IF v.b THEN TrueText ELSE FalseText
      [] v.t = "num" -> DecimalText(v.n)

\* Lines 29-33: the number of appends one qualifying record makes.
BlockLines == 5

RECURSIVE Join(_, _)
\* sep.join(items)
Join(sep, items) ==
    IF items = <<>> THEN <<>>
    ELSE IF Len(items) = 1 THEN items[1]
    ELSE items[1] \o sep \o Join(sep, Tail(items))

\* --------------------------------------------------------- dict and list use

\* d.get(key, default) on a dict d.
Get(d, key, default) == IF key \in DOMAIN d.f THEN d.f[key] ELSE default

\* Whether `.get` exists on v: only a dict has it (anything else raises
\* AttributeError).
HasGet(v) == v.t = "obj"

\* bool(v), as `if not spans` takes it.
Truthy(v) ==
    CASE v.t = "null" -> FALSE
      [] v.t = "bool" -> v.b
      [] v.t = "num" -> v.n # 0
      [] v.t = "str" -> v.s # <<>>
      [] v.t = "arr" -> v.a # <<>>
      [] v.t = "obj" -> DOMAIN v.f # {}

\* Whether v[0] evaluates for a truthy v: on a list or a str. A dict decoded
\* from JSON has str keys only (KeyError), an int or True is not
\* subscriptable (TypeError).
CanIndex0(v) == v.t \in {"arr", "str"}

\* v[0] of a non-empty list or str.
Index0(v) == IF v.t = "arr" THEN v.a[1] ELSE JStr(<<v.s[1]>>)

\* --------------------------------------------------------------- the loop body

\* json.loads(line): raises on text that is not JSON, else the decoded value.
Loads(line) == [ok |-> line.t # "text", val |-> line]

\* The state a loop iteration ends in: pc is "loop" when the loop goes on
\* (continue, or the end of the body), "aborted" when an exception left it.
After(p, o, hm) == [pc |-> p, out |-> o, has_messages |-> hm]

\* A variant in which a decode error is not caught.
OnDecodeError_Raise(o, hm) == After("aborted", o, hm)

\* except: continue
OnDecodeError(o, hm) == After("loop", o, hm)

\* obj.get("reason") != "compiler-message"
ReasonDiffers(obj) ==
    LET r == Get(obj, "reason", JNull)
    IN  ~(r.t = "str" /\ r.s = CompilerMessage)

\* msg = obj.get("message", {})
MessageOf(obj) == Get(obj, "message", JObj(<<>>))

\* level not in ("error", "warning")
LevelRejected(level) ==
    ~(level.t = "str" /\ level.s \in {LevelError, LevelWarning})

\* spans = msg.get("spans", [])
SpansOf(msg) == Get(msg, "spans", JArr(<<>>))

\* f"### {level.title()}: {msg.get('message', '')}"
HeadingLine(level, msg) ==
    HeadingPrefix \o Title(level.s) \o HeadingSep
        \o Format(Get(msg, "message", JStr(EmptyText)))

\* f"File: {span.get('file_name')}:{span.get('line_start')}"
FileLine(span) ==
    FilePrefix \o Format(Get(span, "file_name", JNull)) \o FileSep
        \o Format(Get(span, "line_start", JNull))

\* A variant without the default: msg.get("rendered").
RenderedOf_NoDefault(msg) == Get(msg, "rendered", JNull)

\* msg.get("rendered", "")
RenderedOf(msg) == Get(msg, "rendered", JStr(EmptyText))

\* Lines 26-33: the flag is set, then the five appends run in order; an
\* exception leaves the flag set and the appends made so far in `out`.
Emit(o, level, msg, spans) ==
    IF ~CanIndex0(spans) THEN After("aborted", o, TRUE)
    ELSE LET span == Index0(spans)
             o1 == Append(o, HeadingLine(level, msg))
         IN  IF ~HasGet(span) THEN After("aborted", o1, TRUE)
             ELSE LET o3 == Append(Append(o1, FileLine(span)), FenceOpen)
                      rendered == RenderedOf(msg)
                  IN  IF rendered.t # "str" THEN After("aborted", o3, TRUE)
                      ELSE After("loop",
                                 Append(Append(o3, RStrip(rendered.s)), FenceClose),
                                 TRUE)

\* Lines 8-33: one iteration of `for line in f` on `line`, from the buffer o
\* and the flag hm.
Body(o, hm, line) ==
    LET dec == Loads(line)
        obj == dec.val
    IN  IF ~dec.ok THEN OnDecodeError(o, hm)
        ELSE IF ~HasGet(obj) THEN After("aborted", o, hm)
        ELSE IF ReasonDiffers(obj) THEN After("loop", o, hm)
        ELSE LET msg == MessageOf(obj)
             IN  IF ~HasGet(msg) THEN After("aborted", o, hm)
                 ELSE LET level == Get(msg, "level", JNull)
                      IN  IF LevelRejected(level) THEN After("loop", o, hm)
                          ELSE LET spans == SpansOf(msg)
                               IN  IF ~Truthy(spans) THEN After("loop", o, hm)
                                   ELSE Emit(o, level, msg, spans)

\* Lines 35-40: the document the final write puts in check.md.
Document(o, hm) ==
    IF ~hm THEN SuccessDoc ELSE ReportHeader \o Join(Newline, o)

\* ------------------------------------------------------------------ inputs

\* Location spans.
SpanFull ==
    JObj([file_name |-> JStr(<<"a", ".", "r", "s">>), line_start |-> JNum(10)])
SpanOther ==
    JObj([file_name |-> JStr(<<"b">>), line_start |-> JNum(7)])
SpanNoLine ==
    JObj([file_name |-> JStr(<<"a", ".", "r", "s">>)])
SpanEmpty ==
    JObj(<<>>)

\* A record with reason "compiler-message" and the message object m.
Diagnostic(m) == JObj([reason |-> JStr(CompilerMessage), message |-> JObj(m)])

\* Lines on which json.loads raises: other text, and a blank line.
JunkLines == {NotJson(<<"c", "a", "r", "g", "o">>), NotJson(Newline)}

\* Lines that decode to something that is not a dict.
NonObjectLines == {JNum(5), JNull}

\* Records the filter drops.
FilteredLines ==
    { JObj(<<>>),
      JObj([reason |-> JStr(<<"b", "u", "i", "l", "d">>)]),
      JObj([reason |-> JStr(CompilerMessage)]),
      Diagnostic([level |-> JStr(<<"n", "o", "t", "e">>),
                  spans |-> JArr(<<SpanFull>>)]),
      Diagnostic([spans |-> JArr(<<SpanFull>>)]),
      Diagnostic([level |-> JStr(LevelError)]),
      Diagnostic([level |-> JStr(LevelError), spans |-> JArr(<<>>)]) }

\* Records that pass the filter, all of whose fields have the expected types.
QualifyingLines ==
    { Diagnostic([level |-> JStr(LevelError),
                  message |-> JStr(<<"b", "a", "d">>),
                  rendered |-> JStr(<<" ", "e", "\n", "z", " ", "\n">>),
                  spans |-> JArr(<<SpanFull, SpanOther>>)]),
      Diagnostic([level |-> JStr(LevelWarning),
                  message |-> JStr(<<"w">>),
                  rendered |-> JStr(<<"w">>),
                  spans |-> JArr(<<SpanOther>>)]),
      Diagnostic([level |-> JStr(LevelWarning),
                  spans |-> JArr(<<SpanEmpty>>)]),
      Diagnostic([level |-> JStr(LevelError),
                  message |-> JStr(<<"b", "a", "d">>),
                  spans |-> JArr(<<SpanNoLine>>)]) }

\* Records with a field of another JSON type than the code expects.
IllTypedLines ==
    { JObj([reason |-> JStr(CompilerMessage), message |-> JNull]),
      Diagnostic([level |-> JStr(LevelError), spans |-> JNum(7)]),
      Diagnostic([level |-> JStr(LevelError), spans |-> JArr(<<JNum(5)>>)]),
      Diagnostic([level |-> JStr(LevelError), rendered |-> JNull,
                  spans |-> JArr(<<SpanFull>>)]) }

LineSet ==
    JunkLines \cup NonObjectLines \cup FilteredLines \cup QualifyingLines
        \cup IllTypedLines

\* The input files: every sequence of at most MaxLines lines.
Inputs == UNION {[1..n -> LineSet] : n \in 0..MaxLines}

\* What check.md may hold before the run: nothing, or an earlier report.
PriorContents == {EmptyText, <<"o", "l", "d", "\n">>}

\* ------------------------------------------------------------ the program

\* Lines 3-4.
Init ==
    /\ input \in Inputs
    /\ before \in PriorContents
    /\ pc = "start"
    /\ i = 1
    /\ out = <<>>
    /\ has_messages = FALSE
    /\ file = before

\* A variant that opens check.md for writing together with the input.
OpenInput_Truncating ==
    /\ pc = "start"
    /\ pc' = "loop"
    /\ file' = EmptyText
    /\ UNCHANGED <<input, before, i, out, has_messages>>

\* Line 6: open("check.json") succeeds.
OpenInput ==
    /\ pc = "start"
    /\ pc' = "loop"
    /\ UNCHANGED <<input, before, i, out, has_messages, file>>

\* Line 6: open("check.json") raises OSError.
OpenInputFails ==
    /\ pc = "start"
    /\ pc' = "io_failed"
    /\ UNCHANGED <<input, before, i, out, has_messages, file>>

\* Lines 7-33: the loop takes the next line and runs the body on it.
ProcessLine ==
    /\ pc = "loop"
    /\ i <= Len(input)
    /\ LET r == Body(out, has_messages, input[i])
       IN  /\ pc' = r.pc
           /\ out' = r.out
           /\ has_messages' = r.has_messages
    /\ i' = i + 1
    /\ UNCHANGED <<input, before, file>>

\* Lines 35-36 and 38-39: the input is exhausted, the branch is taken and
\* open("check.md", "w") truncates the file.
OpenOutput ==
    /\ pc = "loop"
    /\ i > Len(input)
    /\ pc' = "write"
    /\ file' = EmptyText
    /\ UNCHANGED <<input, before, i, out, has_messages>>

\* Lines 36 and 39: open("check.md", "w") raises OSError.
OpenOutputFails ==
    /\ pc = "loop"
    /\ i > Len(input)
    /\ pc' = "io_failed"
    /\ UNCHANGED <<input, before, i, out, has_messages, file>>

\* Lines 37 and 40: w.write(...) and the close at the end of the with block.
WriteOutput ==
    /\ pc = "write"
    /\ pc' = "done"
    /\ file' = Document(out, has_messages)
    /\ UNCHANGED <<input, before, i, out, has_messages>>

\* Lines 37 and 40: the write raises OSError after k characters reached the
\* file (k less than the length of the document).
WriteOutputFails ==
    /\ pc = "write"
    /\ pc' = "io_failed"
    /\ \E k \in 0..(Len(Document(out, has_messages)) - 1) :
           file' = SubSeq(Document(out, has_messages), 1, k)
    /\ UNCHANGED <<input, before, i, out, has_messages>>

Next ==
    \/ OpenInput
    \/ OpenInputFails
    \/ ProcessLine
    \/ OpenOutput
    \/ OpenOutputFails
    \/ WriteOutput
    \/ WriteOutputFails

Spec == Init /\ [][Next]_vars

RECURSIVE PassFrom(_, _, _, _)
\* Lines 7-33 as a function: the state the for loop over `lines` ends in when
\* it is at line k with the buffer o and the flag hm. An exception ends it.
PassFrom(lines, k, o, hm) ==
    IF k > Len(lines) THEN After("loop", o, hm)
    ELSE LET r == Body(o, hm, lines[k])
         IN  IF r.pc = "aborted" THEN r
             ELSE PassFrom(lines, k + 1, r.out, r.has_messages)

\* Lines 3-40 as a function: check.md after a run on `lines` in which no
\* OSError occurs. A run the pass aborts never opens check.md.
RunOn(lines) ==
    LET r == PassFrom(lines, 1, <<>>, FALSE)
    IN  IF r.pc = "aborted" THEN before ELSE Document(r.out, r.has_messages)

\* ---------------------------------------------- the vocabulary of the claims

\* The loop is about to take line i.
AtLine == pc = "loop" /\ i <= Len(input)

\* The run has ended without an I/O failure: normally, or by an exception
\* raised in the pass.
Ended == pc \in {"done", "aborted"}

\* The iteration left the buffer and the flag alone and the loop goes on.
Skipped == pc' = "loop" /\ out' = out /\ has_messages' = has_messages

IsJson(line) == line.t # "text"

HasField(v, key) == v.t = "obj" /\ key \in DOMAIN v.f

IsText(v, s) == v.t = "str" /\ v.s = s

\* The four conditions on a record.
ReasonIsCompilerMessage(line) ==
    HasField(line, "reason") /\ IsText(line.f["reason"], CompilerMessage)

LevelIsErrorOrWarning(line) ==
    /\ HasField(line, "message")
    /\ HasField(line.f["message"], "level")
    /\ \/ IsText(line.f["message"].f["level"], LevelError)
       \/ IsText(line.f["message"].f["level"], LevelWarning)

SpansNonEmpty(line) ==
    /\ HasField(line, "message")
    /\ HasField(line.f["message"], "spans")
    /\ line.f["message"].f["spans"].t = "arr"
    /\ line.f["message"].f["spans"].a # <<>>

Qualifies(line) ==
    /\ IsJson(line)
    /\ ReasonIsCompilerMessage(line)
    /\ LevelIsErrorOrWarning(line)
    /\ SpansNonEmpty(line)

QualifyingIn(lines) == SelectSeq(lines, Qualifies)

\* The text shown for a field value; "None" stands for a value that is
\* missing.
Shown(v) ==
    CASE v.t = "str" -> v.s
      [] v.t = "num" -> DecimalText(v.n)
      [] OTHER -> NoneText

FieldOr(v, key, default) == IF HasField(v, key) THEN v.f[key] ELSE default

RECURSIVE TrimRight(_)
\* s with every trailing whitespace character and newline removed.
TrimRight(s) ==
    IF s # <<>> /\ s[Len(s)] \in Whitespace
    THEN TrimRight(SubSeq(s, 1, Len(s) - 1))
    ELSE s

Capitalized(level) ==
    IF level = LevelError THEN <<"E", "r", "r", "o", "r">>
    ELSE <<"W", "a", "r", "n", "i", "n", "g">>

\* The five lines of the block of a qualifying record.
ExpectedHeading(line) ==
    LET m == line.f["message"]
    IN  <<"#", "#", "#", " ">> \o Capitalized(m.f["level"].s) \o <<":", " ">>
            \o Shown(FieldOr(m, "message", JStr(<<>>)))

ExpectedLocation(line) ==
    LET first == line.f["message"].f["spans"].a[1]
    IN  <<"F", "i", "l", "e", ":", " ">> \o Shown(FieldOr(first, "file_name", JNull))
            \o <<":">> \o Shown(FieldOr(first, "line_start", JNull))

ExpectedBody(line) ==
    LET r == FieldOr(line.f["message"], "rendered", JStr(<<>>))
    IN  IF r.t = "str" THEN TrimRight(r.s) ELSE <<>>

\* The block as text: its five lines, each ended by a newline.
ExpectedBlock(line) ==
    ExpectedHeading(line) \o <<"\n">>
        \o ExpectedLocation(line) \o <<"\n">>
        \o FenceOpen \o <<"\n">>
        \o ExpectedBody(line) \o <<"\n">>
        \o <<Backtick, Backtick, Backtick, "\n">>

\* The report for `lines`: the heading, a blank line, and the blocks of the
\* qualifying records, in input order, joined by newlines.
ExpectedReport(lines) ==
    LET q == QualifyingIn(lines)
    IN  <<"#", " ", "C", "a", "r", "g", "o", " ", "C", "h", "e", "c", "k", " ",
          "R", "e", "p", "o", "r", "t", "\n", "\n">>
            \o Join(<<"\n">>, [k \in DOMAIN q |-> ExpectedBlock(q[k])])

\* s is an initial part of `whole`.
IsPrefix(s, whole) ==
    Len(s) <= Len(whole) /\ s = SubSeq(whole, 1, Len(s))

\* ------------------------------------------------------------------ claims

\* C1: a line contributes a block to the report if and only if it decodes as
\* JSON, its reason is "compiler-message", its level is "error" or "warning"
\* and its spans is non-empty; nothing else about the record decides it.
C1_ContributesIffQualifies ==
    [][AtLine =>
        ((pc' = "loop" /\ Len(out') = Len(out) + BlockLines)
            <=> Qualifies(input[i]))]_vars

\* C2: a line that decodes to a JSON value that is not an object is dropped
\* like an undecodable line: nothing is raised and the loop goes on to the
\* later lines.
C2_NonObjectDropped ==
    [][(AtLine /\ IsJson(input[i]) /\ input[i].t # "obj") => Skipped]_vars

\* C3: whatever the lines of the input hold, no run ends by an exception
\* raised in the pass; only an I/O failure on opening the input or on writing
\* the output ends a run without completing it.
C3_NoAbortInPass == pc # "aborted"

\* C4: when no line of the input qualifies (no lines, undecodable lines,
\* filtered records), check.md after the run is exactly the success document;
\* in every other completed run it is the report, never the success document.
C4_SuccessDocument ==
    /\ (Ended /\ QualifyingIn(input) = <<>>) => file = SuccessDoc
    /\ (pc = "done" /\ QualifyingIn(input) # <<>>) =>
           (file = ExpectedReport(input) /\ file # SuccessDoc)

\* C5: for an input with N >= 1 qualifying records, check.md after the run
\* holds exactly their N blocks in input order: none is reordered,
\* deduplicated or dropped.
C5_BlocksInInputOrder ==
    (Ended /\ QualifyingIn(input) # <<>>) => file = ExpectedReport(input)

\* C6 (as stated): in every reachable state check.md holds its content from
\* before the run, the full success document or the full report.
C6_OnlyWholeDocuments ==
    file \in {before, SuccessDoc, ReportHeader \o Join(Newline, out)}

\* C6 (amended): check.md keeps its content from before the run until the
\* whole input has been consumed and the document has been chosen, also when
\* the pass aborts; from then on it holds an initial part of the chosen
\* document (nothing right after the truncating open), and the complete
\* document once the write has succeeded.
C6_NoWriteBeforeDecision ==
    /\ pc \in {"start", "loop", "aborted"} => file = before
    /\ file # before =>
           /\ i > Len(input)
           /\ pc \in {"write", "done", "io_failed"}
           /\ IsPrefix(file, Document(out, has_messages))
    /\ pc = "write" => file = EmptyText
    /\ pc = "done" => file = Document(out, has_messages)

\* A report has replaced an earlier check.md.
C6_Witness ==
    /\ pc = "done"
    /\ has_messages
    /\ before # EmptyText
    /\ file = ReportHeader \o Join(Newline, out)

\* C7: lines on which JSON decoding fails, blank lines included, do not change
\* the outcome: check.md after a run on the input is what a run on the input
\* without those lines leaves.
C7_UndecodableLinesIgnored ==
    Ended => file = RunOn(SelectSeq(input, IsJson))

\* A report was written from an input that holds an undecodable line.
C7_Witness ==
    /\ pc = "done"
    /\ has_messages
    /\ \E k \in DOMAIN input : ~IsJson(input[k])

\* C8: a report document is the heading "# Cargo Check Report", a blank line,
\* and one block per qualifying record joined by newlines; a block is
\* "### <Level>: <message>" with the level capitalised, "File: <file_name>:
\* <line_start>" of the first span, the rust fence, the rendered text without
\* its trailing whitespace, and the closing fence.
C8_ReportFormat ==
    (pc = "done" /\ has_messages) => file = ExpectedReport(input)

\* A report of two blocks, the first from a record with two spans and a
\* rendered text that ends in whitespace.
C8_Witness ==
    /\ pc = "done"
    /\ Len(out) = 2 * BlockLines
    /\ Len(input[1].f["message"].f["spans"].a) = 2
    /\ out[4] = <<" ", "e", "\n", "z">>

\* C9: a missing field is never an error. A record without message, or
\* without message.spans, is skipped; a qualifying record without
\* message.message or message.rendered shows the empty text for it, and one
\* whose first span lacks file_name or line_start shows "None" for it, the
\* block being emitted all the same.
C9_MissingFields ==
    [][(AtLine /\ input[i].t = "obj") =>
        LET r == input[i]
            m == r.f["message"]
            first == m.f["spans"].a[1]
            n == Len(out)
            wellTyped ==
                /\ Qualifies(r)
                /\ first.t = "obj"
                /\ HasField(m, "rendered") => m.f["rendered"].t = "str"
        IN  /\ ~HasField(r, "message") => Skipped
            /\ (HasField(r, "message") /\ m.t = "obj" /\ ~HasField(m, "spans"))
                   => Skipped
            /\ wellTyped =>
                   /\ pc' = "loop"
                   /\ Len(out') = n + BlockLines
                   /\ ~HasField(m, "message") =>
                          out'[n + 1] = <<"#", "#", "#", " ">>
                              \o Capitalized(m.f["level"].s) \o <<":", " ">>
                   /\ ~HasField(m, "rendered") => out'[n + 4] = <<>>
                   /\ ~HasField(first, "file_name") =>
                          IsPrefix(<<"F", "i", "l", "e", ":", " ",
                                     "N", "o", "n", "e", ":">>, out'[n + 2])
                   /\ ~HasField(first, "line_start") =>
                          out'[n + 2] = <<"F", "i", "l", "e", ":", " ">>
                              \o Shown(FieldOr(first, "file_name", JNull))
                              \o <<":", "N", "o", "n", "e">>]_vars

\* A block was emitted for a record that lacks message.message,
\* message.rendered, and both fields of its first span.
C9_Witness ==
    /\ pc = "done"
    /\ Len(out) = BlockLines
    /\ out[1] = <<"#", "#", "#", " ", "W", "a", "r", "n", "i", "n", "g", ":", " ">>
    /\ out[2] = <<"F", "i", "l", "e", ":", " ", "N", "o", "n", "e", ":", "N", "o", "n", "e">>
    /\ out[4] = <<>>

\* C10: has_messages is true exactly when out is non-empty, and out holds
\* five entries per qualifying record consumed so far.
C10_FlagMatchesBuffer ==
    /\ has_messages <=> out # <<>>
    /\ Len(out) = BlockLines * Len(QualifyingIn(SubSeq(input, 1, i - 1)))

====
